---------------------------- MODULE Spec2Model ----------------------------
(***************************************************************************)
(* Model of gold_price_calculator.py: a Streamlit script that is re-run    *)
(* top to bottom on every user interaction.                                *)
(*                                                                         *)
(* Three specifications share the module:                                  *)
(*   Spec       the browser session: sidebar widgets, the calc_form, the   *)
(*              session state and the page each script run leaves behind;  *)
(*   SpecPrice  calls of price_for_carat on one 24k rate;                  *)
(*   SpecSim    one call of simulate_historical, one loop turn per step.   *)
(*                                                                         *)
(* Python floats are modelled as exact rationals <<num, den>> (den > 0,    *)
(* lowest terms): the value a double approximates.  The double's own       *)
(* rounding error (relative 2^-53) is not computed.  It decides only what  *)
(* round() and the .2f format do on a decimal tie, so those take the sign  *)
(* of that error as an input of the run.                                   *)
(***************************************************************************)
EXTENDS Integers, Sequences, FiniteSets, TLC

VARIABLES
    dark_mode,      \* sidebar checkbox "Dark Mode"                  (line 61)
    manual_24k,     \* sidebar number input "Manual 24k rate"        (line 65)
    shop_mode,      \* sidebar checkbox "Enable Professional ..."    (line 68)
    form,           \* values of the calc_form widgets as last submitted
    session_state,  \* st.session_state
    page,           \* what the last script run rendered / raised
    price_24k,      \* SpecPrice: the 24k rate being converted
    quotes,         \* SpecPrice: carat -> outcome of price_for_carat
    sim             \* SpecSim: frame of simulate_historical

vars == <<dark_mode, manual_24k, shop_mode, form, session_state, page,
          price_24k, quotes, sim>>

sessionVars == <<dark_mode, manual_24k, shop_mode, form, session_state, page>>

-----------------------------------------------------------------------------
(* Float arithmetic on rationals *)

Abs(x) == IF x < 0 THEN -x ELSE x

RECURSIVE Gcd(_, _)
Gcd(a, b) == IF b = 0 THEN a ELSE Gcd(b, a % b)

\* the float n/d (d > 0), in lowest terms
Float(n, d) ==
    LET g == Gcd(Abs(n), d)
    IN  IF n = 0 THEN <<0, 1>> ELSE <<n \div g, d \div g>>

\* a * b
FMul(a, b) ==
    LET g1 == Gcd(Abs(a[1]), b[2])
        g2 == Gcd(Abs(b[1]), a[2])
    IN  IF a[1] = 0 \/ b[1] = 0 THEN <<0, 1>>
        ELSE <<(a[1] \div g1) * (b[1] \div g2), (a[2] \div g2) * (b[2] \div g1)>>

\* a / b, b # 0
FDiv(a, b) ==
    IF b[1] > 0 THEN FMul(a, <<b[2], b[1]>>) ELSE FMul(a, <<-b[2], -b[1]>>)

\* a + b
FAdd(a, b) ==
    LET g == Gcd(a[2], b[2])
    IN  Float(a[1] * (b[2] \div g) + b[1] * (a[2] \div g), (a[2] \div g) * b[2])

\* a < b
FLt(a, b) ==
    LET g == Gcd(a[2], b[2])
    IN  a[1] * (b[2] \div g) < b[1] * (a[2] \div g)

\* Python's max(a, b): b only when it is greater than a
FMax(a, b) == IF FLt(a, b) THEN b ELSE a

Pow10(nd) == IF nd = 0 THEN 1 ELSE IF nd = 1 THEN 10 ELSE IF nd = 2 THEN 100 ELSE 1000

\* round(d, nd) and format(d, ".2f") of the double d that approximates x.
\* err is the sign of d - x: off a decimal tie it does not matter; on a tie
\* the double lies above it (1), below it (-1), or is the tie itself (0,
\* which needs x to be a binary fraction) and then rounds half to even.
Round(x, nd, err) ==
    LET p   == Pow10(nd)
        rem == (x[1] % x[2]) * p
        q   == (x[1] \div x[2]) * p + (rem \div x[2])
        r2  == 2 * (rem % x[2])
        up  == \/ r2 > x[2]
               \/ r2 = x[2] /\ (err > 0 \/ (err = 0 /\ q % 2 = 1))
    IN  Float(IF up THEN q + 1 ELSE q, p)

-----------------------------------------------------------------------------
(* Purity table and the carat conversion *)

PURITY == (24 :> Float(999, 1000)) @@ (22 :> Float(916, 1000)) @@
          (20 :> Float(833, 1000)) @@ (18 :> Float(750, 1000))

\* a slip that inverts the ratio: price_24k * PURITY[24] / PURITY[carat]
price_for_carat_inverted(p24, carat) ==
    IF carat \in DOMAIN PURITY
    THEN FDiv(FMul(p24, PURITY[24]), PURITY[carat])
    ELSE FMul(p24, FDiv(Float(carat, 1), Float(24, 1)))

price_for_carat(p24, carat) ==
    IF carat \in DOMAIN PURITY
    THEN FDiv(FMul(p24, PURITY[carat]), PURITY[24])
    ELSE FMul(p24, FDiv(Float(carat, 1), Float(24, 1)))

-----------------------------------------------------------------------------
(* The script body: one run, top to bottom *)

\* names bound at module level besides the widget values: imports, defs,
\* layout handles
ModuleNames == {"st", "pd", "np", "requests", "alt", "os", "datetime",
                "timedelta", "inject_dark_mode", "PURITY",
                "simulate_historical", "price_for_carat",
                "col_left", "col_right", "col1", "col2", "col3"}

\* module-level variables holding values when the `if submitted` block runs
Globals(dark, manual, shop, f, submitted) ==
    [dark_mode       |-> dark,
     manual_24k      |-> manual,
     shop_mode       |-> shop,
     carat           |-> f.carat,
     grams           |-> f.grams,
     item_name       |-> f.item_name,
     making_type     |-> f.making_type,
     making_val      |-> f.making_val,
     wastage_percent |-> f.wastage_percent,
     hallmark        |-> f.hallmark,
     hallmark_charge |-> f.hallmark_charge,
     gst             |-> f.gst,
     submitted       |-> submitted,
     purity_factor   |-> IF f.carat \in DOMAIN PURITY THEN PURITY[f.carat]
                         ELSE FDiv(Float(f.carat, 1), Float(24, 1))]

\* name resolution: a name neither bound in the module nor a builtin raises
\* NameError
IsBound(name, g) == name \in DOMAIN g \/ name \in ModuleNames

\* columns of the frame simulate_historical returns
HistColumns == {"data", "Price_24k"}

NoException == [type |-> "none", arg |-> "", line |-> 0]

BlankPage ==
    [trigger     |-> "load",
     submitted   |-> FALSE,
     exception   |-> NoException,
     metric      |-> <<>>,      \* st.metric "Final Bill"
     breakdown   |-> <<>>,      \* st.table(df_break)
     save_button |-> FALSE,     \* "Save this transaction" is on the page
     saved       |-> FALSE,     \* st.success shown
     bar_chart   |-> FALSE,
     hist_chart  |-> FALSE,
     dashboard   |-> "not_rendered",
     table       |-> <<>>,      \* st.dataframe rows
     csv         |-> <<>>]      \* data of the download button

\* an uncaught exception ends the run: what was rendered stays, the rest of
\* the script (the dashboard included) is not executed
Raise(p, type, arg, line, ss) ==
    [page |-> [p EXCEPT !.exception = [type |-> type, arg |-> arg, line |-> line]],
     ss   |-> ss]

\* making charge, taken in the else branch for both radio options
MakingCharge(making_type, gold_value, making_val, effective_grams) ==
    IF making_type = "% of gold value"
    THEN FMul(gold_value, FDiv(making_val, Float(100, 1)))
    ELSE FMul(making_val, effective_grams)

Bill(rate_24k, f) ==
    LET rate_per_g      == price_for_carat(rate_24k, f.carat)
        effective_grams == FMul(f.grams,
                               FAdd(Float(1, 1), FDiv(f.wastage_percent, Float(100, 1))))
        gold_value      == FMul(rate_per_g, effective_grams)
        making_charge   == MakingCharge(f.making_type, gold_value, f.making_val,
                                        effective_grams)
        pre_tax         == FAdd(FAdd(gold_value, f.hallmark_charge), making_charge)
        gst_amount      == FMul(pre_tax, FDiv(f.gst, Float(100, 1)))
        final_price     == FAdd(pre_tax, gst_amount)
    IN  [rate_24k        |-> rate_24k,
         rate_per_g      |-> rate_per_g,
         effective_grams |-> effective_grams,
         gold_value      |-> gold_value,
         making_charge   |-> making_charge,
         hallmark_charge |-> f.hallmark_charge,
         pre_tax         |-> pre_tax,
         gst_amount      |-> gst_amount,
         final_price     |-> final_price]

\* the dict appended to the ledger
Transaction(f, bill, env) ==
    [timestamp       |-> env.now,
     item            |-> f.item_name,
     carat           |-> f.carat,
     grams           |-> f.grams,
     wastage         |-> f.wastage_percent,
     effective_grams |-> Round(bill.effective_grams, 3, env.err.effective_grams),
     rate_per_g      |-> Round(bill.rate_per_g, 2, env.err.rate_per_g),
     gold_value      |-> Round(bill.gold_value, 2, env.err.gold_value),
     making_charge   |-> Round(bill.making_charge, 2, env.err.making_charge),
     hallmark        |-> f.hallmark_charge,
     gst             |-> f.gst,
     final_price     |-> Round(bill.final_price, 2, env.err.final_price)]

EmptySession == [k \in {} |-> <<>>]

\* the shop-mode block: create the ledger key, offer the button, append
\* when this run was caused by the button's click
SaveBlock(trigger, shop, f, bill, ss, env) ==
    IF ~shop THEN [ss |-> ss, save_button |-> FALSE, saved |-> FALSE]
    ELSE
        LET ss1 == IF "transactions" \in DOMAIN ss THEN ss
                   ELSE [k \in DOMAIN ss \cup {"transactions"} |->
                            IF k = "transactions" THEN <<>> ELSE ss[k]]
        IN  IF trigger = "save"
            THEN [ss |-> [ss1 EXCEPT !["transactions"] =
                              Append(@, Transaction(f, bill, env))],
                  save_button |-> TRUE, saved |-> TRUE]
            ELSE [ss |-> ss1, save_button |-> TRUE, saved |-> FALSE]

\* rows ordered by timestamp, latest first
RECURSIVE SortDesc(_)
SortDesc(rows) ==
    IF Len(rows) <= 1 THEN rows
    ELSE LET rest == SortDesc(Tail(rows))
             h    == Head(rows)
             k    == Cardinality({i \in 1..Len(rest) : rest[i].timestamp > h.timestamp})
         IN  SubSeq(rest, 1, k) \o <<h>> \o SubSeq(rest, k + 1, Len(rest))

\* right column: the ledger table and its CSV, or the "no transactions" note
Dashboard(p, ss) ==
    IF "transactions" \in DOMAIN ss /\ Len(ss["transactions"]) > 0
    THEN [p EXCEPT !.dashboard = "table",
                   !.table = SortDesc(ss["transactions"]),
                   !.csv = ss["transactions"]]
    ELSE [p EXCEPT !.dashboard = "info"]

\* lines 156-181, then the right column: the two charts
Charts(g, p, ss) ==
    IF ~IsBound("pdDataFrame", g)
    THEN Raise(p, "NameError", "pdDataFrame", 156, ss)
    ELSE IF ~IsBound("base_24k", g)
    THEN Raise([p EXCEPT !.bar_chart = TRUE], "NameError", "base_24k", 167, ss)
    ELSE IF "price_24k" \notin HistColumns
    THEN Raise([p EXCEPT !.bar_chart = TRUE], "KeyError", "price_24k", 170, ss)
    ELSE [page |-> Dashboard([p EXCEPT !.bar_chart = TRUE, !.hist_chart = TRUE], ss),
          ss   |-> ss]

\* lines 133-153 have run with outcome sv
AfterSave(g, p, sv) ==
    Charts(g, [p EXCEPT !.save_button = sv.save_button, !.saved = sv.saved], sv.ss)

\* lines 113-153: result card, breakdown table, save option
ShowBill(trigger, g, shop, f, ss, env, p, bill) ==
    AfterSave(g,
              [p EXCEPT !.metric = <<Round(bill.final_price, 2, env.err.final_price)>>,
                        !.breakdown = <<bill>>],
              SaveBlock(trigger, shop, f, bill, ss, env))

\* the `if submitted:` block followed by the rest of the script
CalcBlock(trigger, g, shop, f, ss, env, p) ==
    IF ~IsBound("rate_24k", g)
    THEN Raise(p, "NameError", "rate_24k", 98, ss)
    ELSE ShowBill(trigger, g, shop, f, ss, env, p, Bill(g["rate_24k"], f))

\* One script run.  trigger names the interaction that caused it: the form's
\* submit button and st.button each return True only in the run their own
\* click caused.  env is what the run takes from outside the script: the
\* clock, and the sign of the rounding error of each double it rounds.
RunScript(trigger, dark, manual, shop, f, ss, env) ==
    LET submitted == (trigger = "submit")
        g         == Globals(dark, manual, shop, f, submitted)
        p         == [BlankPage EXCEPT !.trigger = trigger, !.submitted = submitted]
    IN  IF submitted
        THEN CalcBlock(trigger, g, shop, f, ss, env, p)
        ELSE [page |-> Dashboard(p, ss), ss |-> ss]

-----------------------------------------------------------------------------
(* The session *)

Carats == {24, 22, 20, 18}

MakingTypes == {"% of gold", "₹per gram"}

HallmarkOptions == {"Yes", "No"}

\* values the widgets accept, sampled within their min_value / max_value
ManualRates     == {Float(1000, 1), Float(6000, 1), Float(20000, 1)}
GramsInputs     == {Float(10, 1)}
MakingInputs    == {Float(2, 1)}
WastageInputs   == {Float(0, 1)}
HallmarkCharges == {Float(50, 1)}
GstInputs       == {Float(3, 1)}
Times           == {1, 2}

\* the doubles the script rounds
RoundedFields == {"effective_grams", "rate_per_g", "gold_value", "making_charge",
                  "final_price"}

\* clock readings and error signs a run may meet: each rounded double has
\* its own error, so every combination of signs
Envs == [now : Times, err : [RoundedFields -> {-1, 0, 1}]]

FirstEnv == [now |-> 1, err |-> [k \in RoundedFields |-> 0]]

FormInputs ==
    [carat           : Carats,
     grams           : GramsInputs,
     item_name       : {"Gold Ring"},
     making_type     : MakingTypes,
     making_val      : MakingInputs,
     wastage_percent : WastageInputs,
     hallmark        : HallmarkOptions,
     hallmark_charge : HallmarkCharges,
     gst             : GstInputs]

\* the widgets' declared defaults
DefaultForm ==
    [carat           |-> 22,
     grams           |-> Float(10, 1),
     item_name       |-> "Gold Ring",
     making_type     |-> "% of gold",
     making_val      |-> Float(2, 1),
     wastage_percent |-> Float(0, 1),
     hallmark        |-> "Yes",
     hallmark_charge |-> Float(50, 1),
     gst             |-> Float(3, 1)]

NoQuotes == [c \in {} |-> <<>>]

NoFrame == [pc |-> "idle", base_rate_24k |-> Float(0, 1), days |-> 0,
            volatility |-> Float(0, 1), dates |-> <<>>, prices |-> <<>>,
            price |-> Float(0, 1), df_hist |-> <<>>]

IdlePrice == price_24k = Float(0, 1) /\ quotes = NoQuotes
IdleSim   == sim = NoFrame
IdleSession ==
    /\ dark_mode = FALSE /\ manual_24k = Float(6000, 1) /\ shop_mode = TRUE
    /\ form = DefaultForm /\ session_state = EmptySession /\ page = BlankPage

\* the page after the first run of the script in a fresh session
Init ==
    /\ dark_mode = FALSE
    /\ manual_24k = Float(6000, 1)
    /\ shop_mode = TRUE
    /\ form = DefaultForm
    /\ session_state = EmptySession
    /\ page = RunScript("load", FALSE, Float(6000, 1), TRUE, DefaultForm,
                        EmptySession, FirstEnv).page
    /\ IdlePrice /\ IdleSim

\* every interaction re-runs the script with the new widget values
Rerun(trigger, dark, manual, shop, f) ==
    \E env \in Envs :
        LET r == RunScript(trigger, dark, manual, shop, f, session_state, env)
        IN  /\ dark_mode' = dark
            /\ manual_24k' = manual
            /\ shop_mode' = shop
            /\ form' = f
            /\ session_state' = r.ss
            /\ page' = r.page
            /\ UNCHANGED <<price_24k, quotes, sim>>

ToggleDarkMode == Rerun("dark_mode", ~dark_mode, manual_24k, shop_mode, form)

ToggleShopMode == Rerun("shop_mode", dark_mode, manual_24k, ~shop_mode, form)

SetManualRate ==
    \E r \in ManualRates \ {manual_24k} :
        Rerun("manual_24k", dark_mode, r, shop_mode, form)

SubmitForm == \E f \in FormInputs : Rerun("submit", dark_mode, manual_24k, shop_mode, f)

\* The two buttons below exist only on a page that rendered them.
ClickSave ==
    /\ page.save_button
    /\ Rerun("save", dark_mode, manual_24k, shop_mode, form)

DownloadCSV ==
    /\ page.dashboard = "table"
    /\ Rerun("download", dark_mode, manual_24k, shop_mode, form)

\* No reachable page offers either button (checked as an invariant of Spec),
\* so neither click is a step of the session.
NoButtonOffered == page.save_button = FALSE /\ page.dashboard # "table"

Next == ToggleDarkMode \/ ToggleShopMode \/ SetManualRate \/ SubmitForm

Spec == Init /\ [][Next]_vars

-----------------------------------------------------------------------------
(* price_for_carat called on one 24k rate, carat by carat *)

PriceInputs == {Float(-6000, 1), Float(0, 1), Float(1, 100), Float(1, 1),
                Float(999, 1), Float(1000, 1), Float(6000, 1), Float(20000, 1)}

\* the table carats and carats that take the karat/24.0 branch
QuoteCarats == Carats \cup {14, 21, 23}

\* the function has no raise statement: every call returns a value
CallPriceForCarat(p24, carat) ==
    [raised |-> "none", value |-> <<price_for_carat(p24, carat)>>]

InitPrice ==
    /\ price_24k \in PriceInputs
    /\ quotes = NoQuotes
    /\ IdleSession /\ IdleSim

Quote ==
    \E c \in QuoteCarats \ DOMAIN quotes :
        /\ quotes' = [k \in DOMAIN quotes \cup {c} |->
                         IF k = c THEN CallPriceForCarat(price_24k, c) ELSE quotes[k]]
        /\ UNCHANGED <<price_24k, sim, sessionVars>>

NextPrice == Quote

SpecPrice == InitPrice /\ [][NextPrice]_vars

-----------------------------------------------------------------------------
(* simulate_historical, one loop turn per step *)

MaxDays == 5

SimBases == {Float(-6000, 1), Float(1, 1), Float(1000, 1), Float(6000, 1),
             Float(20000, 1)}

Volatilities == {Float(0, 1), Float(8, 1000), Float(1, 100)}

\* sample of the reals a normal draw can return when scale > 0
Shocks == {Float(-2, 1), Float(-1, 2), Float(-1, 8), Float(0, 1), Float(1, 8),
           Float(1, 2)}

\* np.random.normal(loc=0.0, scale=volatility)
NormalDraws(scale) == IF scale = Float(0, 1) THEN {Float(0, 1)} ELSE Shocks

\* the step without the floor
WalkStepUnfloored(price, shock) == FMul(price, FAdd(Float(1, 1), shock))

\* price = max(1000.0, price * (1 + shock))
WalkStep(price, shock) ==
    FMax(Float(1000, 1), FMul(price, FAdd(Float(1, 1), shock)))

\* dates as day offsets from today, ascending
Dates(days) == [j \in 1..days |-> j - days]

InitSim ==
    /\ \E b \in SimBases, d \in 0..MaxDays, v \in Volatilities :
          sim = [pc            |-> "loop",
                 base_rate_24k |-> b,
                 days          |-> d,
                 volatility    |-> v,
                 dates         |-> Dates(d),
                 prices        |-> <<>>,
                 price         |-> b,
                 df_hist       |-> <<>>]
    /\ IdleSession /\ IdlePrice

SimLoop ==
    /\ sim.pc = "loop"
    /\ Len(sim.prices) < sim.days
    /\ \E shock \in NormalDraws(sim.volatility) :
          sim' = [sim EXCEPT !.price  = WalkStep(sim.price, shock),
                             !.prices = Append(@, WalkStep(sim.price, shock))]
    /\ UNCHANGED <<price_24k, quotes, sessionVars>>

SimReturn ==
    /\ sim.pc = "loop"
    /\ Len(sim.prices) = sim.days
    /\ sim' = [sim EXCEPT !.pc = "returned",
                          !.df_hist = <<[data |-> sim.dates, Price_24k |-> sim.prices]>>]
    /\ UNCHANGED <<price_24k, quotes, sessionVars>>

NextSim == SimLoop \/ SimReturn

SpecSim == InitSim /\ [][NextSim]_vars

-----------------------------------------------------------------------------
(* Properties *)

\* the session ledger; an absent key holds no entry
Ledger(ss) == IF "transactions" \in DOMAIN ss THEN ss["transactions"] ELSE <<>>

\* the run a click on "Save this transaction" would cause from this state
SaveRun(env) ==
    RunScript("save", dark_mode, manual_24k, shop_mode, form, session_state, env)

\* the run a submit of the current form with the given Hallmark option causes
SubmitRun(h, env) ==
    RunScript("submit", dark_mode, manual_24k, shop_mode,
              [form EXCEPT !.hallmark = h], session_state, env)

\* C1: after every submitted calculation the breakdown's making charge is
\* gold_value * making_val / 100 for the option "% of gold" and
\* making_val * effective_grams for the option "₹per gram".
C1_MakingChargeFollowsMode ==
    page.submitted =>
        /\ page.breakdown # <<>>
        /\ LET b == page.breakdown[1]
           IN  /\ form.making_type = "% of gold" =>
                     b.making_charge =
                         FMul(b.gold_value, FDiv(form.making_val, Float(100, 1)))
               /\ form.making_type = "₹per gram" =>
                     b.making_charge = FMul(form.making_val, b.effective_grams)

\* C2: a submitted form with inputs in the widgets' ranges runs to completion:
\* no exception, and a full breakdown ending in a final price is shown.
C2_ValidSubmitCompletes ==
    (page.submitted /\ form \in FormInputs) =>
        /\ page.exception = NoException
        /\ page.breakdown # <<>>
        /\ page.metric # <<>>

\* C3: every submitted calculation yields a result with
\* pre_tax = gold_value + making_charge + hallmark_charge,
\* gst_amount = pre_tax * gst / 100 and final_price = pre_tax + gst_amount.
C3_AdditiveDecomposition ==
    page.submitted =>
        /\ page.breakdown # <<>>
        /\ LET b == page.breakdown[1]
           IN  /\ b.pre_tax = FAdd(FAdd(b.gold_value, b.making_charge), form.hallmark_charge)
               /\ b.gst_amount = FMul(b.pre_tax, FDiv(form.gst, Float(100, 1)))
               /\ b.final_price = FAdd(b.pre_tax, b.gst_amount)

\* C4: every ledger entry carries an invoice identifier, the identifiers are
\* pairwise distinct and increase in recording order; and committing a
\* calculation completed in shop mode records one more such entry.
C4_InvoiceIdentifiers ==
    LET led == Ledger(session_state)
    IN  /\ \A i \in 1..Len(led) : "invoice" \in DOMAIN led[i]
        /\ \A i, j \in 1..Len(led) : i < j => led[i].invoice < led[j].invoice
        /\ (page.submitted /\ shop_mode) =>
              \A env \in Envs :
                  LET after == Ledger(SaveRun(env).ss)
                  IN  /\ Len(after) = Len(led) + 1
                      /\ "invoice" \in DOMAIN after[Len(after)]

\* C6: after a calculation submitted in shop mode the page offers "Save this
\* transaction", and the click's run appends exactly one transaction holding
\* that calculation's values, which the dashboard then lists.
C6_SaveAppendsOne ==
    (page.submitted /\ shop_mode) =>
        /\ page.save_button
        /\ page.breakdown # <<>>
        /\ \A env \in Envs :
              /\ Ledger(SaveRun(env).ss) =
                    Append(Ledger(session_state),
                           Transaction(form, page.breakdown[1], env))
              /\ SaveRun(env).page.dashboard = "table"

\* C7: a call of price_for_carat with a 24k rate <= 0 signals
\* InvalidInputError and returns no value.
C7_InvalidRateRejected ==
    ~FLt(Float(0, 1), price_24k) =>
        \A c \in DOMAIN quotes :
            quotes[c].raised = "InvalidInputError" /\ quotes[c].value = <<>>

\* C8: every price simulate_historical has produced is >= 1000, the running
\* price is >= 1000 after every loop turn, and the returned frame has exactly
\* `days` dates and `days` prices.
C8_PriceFloor ==
    /\ \A i \in 1..Len(sim.prices) : ~FLt(sim.prices[i], Float(1000, 1))
    /\ Len(sim.prices) > 0 => ~FLt(sim.price, Float(1000, 1))
    /\ sim.pc = "returned" =>
          /\ Len(sim.df_hist[1].Price_24k) = sim.days
          /\ Len(sim.df_hist[1].data) = sim.days
          /\ \A i \in 1..sim.days : ~FLt(sim.df_hist[1].Price_24k[i], Float(1000, 1))

\* a returned walk that started below the floor, was lifted to it on the
\* first turn and rose above it later
C8_Witness ==
    /\ sim.pc = "returned"
    /\ sim.days >= 3
    /\ FLt(sim.base_rate_24k, Float(1000, 1))
    /\ sim.prices[1] = Float(1000, 1)
    /\ FLt(Float(1000, 1), sim.prices[sim.days])

\* C9: for a 24k rate > 0 and table carats k1 < k2, the rate quoted for k1
\* is strictly below the rate quoted for k2.
C9_LowerCaratCheaper ==
    FLt(Float(0, 1), price_24k) =>
        \A k1, k2 \in DOMAIN quotes \cap DOMAIN PURITY :
            k1 < k2 => FLt(quotes[k1].value[1], quotes[k2].value[1])

\* all four table carats quoted on a positive rate
C9_Witness ==
    /\ FLt(Float(0, 1), price_24k)
    /\ DOMAIN PURITY \subseteq DOMAIN quotes

\* C10: a submission shows the same page and leaves the same session state
\* as the same submission with the other Hallmark option, and the entered
\* hallmark charge is part of the pre-tax total it shows.
C10_HallmarkOptionIgnored ==
    page.submitted =>
        /\ \A env \in Envs : SubmitRun("Yes", env) = SubmitRun("No", env)
        /\ page.breakdown # <<>>
        /\ page.breakdown[1].pre_tax =
              FAdd(FAdd(page.breakdown[1].gold_value, page.breakdown[1].making_charge),
                   form.hallmark_charge)

=============================================================================
